---------------------------- MODULE Spec2Model ----------------------------
(***************************************************************************)
(* A model of lib/SPIRV/SPIRVRegularizeLLVM.cpp: the pass that rewrites an *)
(* LLVM module so that every construct has a SPIR-V counterpart.           *)
(*                                                                         *)
(*   SpecArith  the bodies synthesized by buildFunnelShiftLeftFunc and     *)
(*              buildUMulWithOverflowFunc, evaluated on bounded integers   *)
(*              with LLVM's poison rules;                                  *)
(*   Spec       regularize() walking a module, one step per loop           *)
(*              iteration of the source, run twice in a row.               *)
(***************************************************************************)
EXTENDS Integers, Sequences, FiniteSets, TLC

VARIABLES
    \* ---- SpecArith: one call of a synthesized helper -------------------
    op,         \* "fshl" | "umul" | "none": which helper is evaluated
    BitWidth,   \* IntTy->getIntegerBitWidth() / the width W of umul
    NumElements,\* VectorTy->getNumElements(); 1 for a scalar type
    lane,       \* number of vector lanes evaluated so far
    FirstArg,   \* getArg(0) of the lane / call evaluated last
    SecondArg,  \* getArg(1)
    Rotate,     \* getArg(2) of fshl
    Res0,       \* returned value: funnel shift result / field 0 (product)
    Res1        \* field 1 of umul's result (overflow bit, 0 or 1)

arithVars == <<op, BitWidth, NumElements, lane, FirstArg, SecondArg, Rotate,
               Res0, Res1>>

VARIABLES
    \* ---- Spec: a run of regularize() ------------------------------------
    M,          \* the Module: funcs, inst, UseList, UseNext
    pc,         \* position in regularize()
    I,          \* the module iterator: index of the next function to visit
    II,         \* the instruction the inner loop is at (0: none)
    U,          \* the user iterator of the cmpxchg loop (a Use)
    Res,        \* the __spirv_AtomicCompareExchange call of the cmpxchg at II
    ToErase,    \* instructions queued for erasure in the current function
    run,        \* 1: first application of the pass, 2: second one
    snapshot,   \* the module as the first application left it
    lowerLog,   \* one record per call site handed to a lowering
    failed,     \* the assertion or unreachable that stopped the run
    lastErased  \* what the last erasure removed, and its state just before

passVars == <<M, pc, I, II, U, Res, ToErase, run, snapshot, lowerLog, failed,
              lastErased>>

vars == <<arithVars, passVars>>

(***************************************************************************)
(* Bounds of the arithmetic model.                                         *)
(***************************************************************************)
MaxWidth == 3
MaxLanes == 2

RECURSIVE Pow2(_)
Pow2(n) == IF n = 0 THEN 1 ELSE 2 * Pow2(n - 1)

IntVals(w) == 0 .. (Pow2(w) - 1)

(***************************************************************************)
(* LLVM integer instructions on w-bit values.  Poison stands for a poison  *)
(* value; an instruction with a poison operand yields poison.              *)
(***************************************************************************)
Poison == -1

\* urem by a non-zero constant
CreateURem(w, x, y) ==
    IF x = Poison \/ y = Poison \/ y = 0 THEN Poison ELSE x % y

\* shl: poison when the shift amount is not smaller than the bit width
CreateShl(w, x, s) ==
    IF x = Poison \/ s = Poison \/ s >= w THEN Poison
    ELSE (x * Pow2(s)) % Pow2(w)

\* lshr: poison when the shift amount is not smaller than the bit width
CreateLShr(w, x, s) ==
    IF x = Poison \/ s = Poison \/ s >= w THEN Poison
    ELSE x \div Pow2(s)

CreateSub(w, x, y) ==
    IF x = Poison \/ y = Poison THEN Poison
    ELSE (x - y + Pow2(w)) % Pow2(w)

RECURSIVE OrBits(_, _, _)
OrBits(w, x, y) ==
    IF w = 0 THEN 0
    ELSE (IF x % 2 = 1 \/ y % 2 = 1 THEN 1 ELSE 0)
         + 2 * OrBits(w - 1, x \div 2, y \div 2)

CreateOr(w, x, y) ==
    IF x = Poison \/ y = Poison THEN Poison ELSE OrBits(w, x, y)

\* mul nuw: poison when the unsigned product does not fit
CreateNUWMul(w, x, y) ==
    IF x = Poison \/ y = Poison \/ x * y >= Pow2(w) THEN Poison ELSE x * y

\* udiv: division by zero is undefined behaviour, modelled as poison
CreateUDiv(w, x, y) ==
    IF x = Poison \/ y = Poison \/ y = 0 THEN Poison ELSE x \div y

\* icmp ne, as an i1 (0 or 1)
CreateICmpNE(x, y) ==
    IF x = Poison \/ y = Poison THEN Poison ELSE IF x # y THEN 1 ELSE 0

\* The values a w-bit result can take at run time: any, when it is poison.
Outcomes(w, v) == IF v = Poison THEN IntVals(w) ELSE {v}

(***************************************************************************)
(* The value returned by the body buildFunnelShiftLeftFunc synthesizes,    *)
(* for one lane (vector operations act lane by lane, the bit width being   *)
(* splat over the lanes).                                                  *)
(***************************************************************************)
BitWidthConstant(w) == w % Pow2(w)

FunnelShiftRes(w, a, b, r) ==
    LET BitWidthForInsts == BitWidthConstant(w)
        RotateModVal     == CreateURem(w, r, BitWidthForInsts)
        ShiftLeft        == CreateShl(w, a, RotateModVal)
        SubRotateVal     == CreateSub(w, BitWidthForInsts, RotateModVal)
        ShiftRight       == CreateLShr(w, b, SubRotateVal)
    IN  CreateOr(w, ShiftLeft, ShiftRight)

(***************************************************************************)
(* The conceptual FSHL of the documentation: concatenate the two ints,     *)
(* the first being the more significant, shift-rotate the doubled int      *)
(* left, return the most significant w bits.                               *)
(***************************************************************************)
ConceptualFSHL(w, a, b, r) ==
    LET Concat  == a * Pow2(w) + b
        Shifted == (Concat * Pow2(r % w)) % Pow2(2 * w)
    IN  Shifted \div Pow2(w)

(***************************************************************************)
(* The two fields of the structure returned by the body                    *)
(* buildUMulWithOverflowFunc synthesizes.                                  *)
(***************************************************************************)
UMulWithOverflowRes(w, a, b) ==
    LET Mul      == CreateNUWMul(w, a, b)
        Div      == CreateUDiv(w, Mul, a)
        Overflow == CreateICmpNE(a, Div)
    IN  <<Mul, Overflow>>

(***************************************************************************)
(* The IR graph.                                                           *)
(*                                                                         *)
(* M.funcs    the module's function list, in order; a function is a name   *)
(*            and a body (a sequence of instruction ids, empty for a       *)
(*            declaration);                                                *)
(* M.inst     the instructions, by id;                                     *)
(* M.UseList  per instruction value, the head of its use-list;             *)
(* M.UseNext  per Use, the Use that follows it in its list.                *)
(*                                                                         *)
(* A Use is <<user, operand index>>.  An operand is an instruction id      *)
(* (> 0), 0 (null) or a negative number naming an argument or a constant.  *)
(* A name is the sequence of its words and separators, so that             *)
(* llvm.fshl.i32 is <<"llvm", ".", "fshl", ".", "i32">>.                    *)
(***************************************************************************)
NoUse == <<0, 0>>

\* arguments of the function an instruction sits in, and constants
Arg0  == -1
Arg1  == -2
Arg2  == -3
Undef == -9
ConstInt32(n) == -(100 + n)

Inst0 ==
    [kind |-> "other", label |-> "", callee |-> <<>>, tail |-> FALSE,
     nounwind |-> FALSE, constArgs |-> FALSE, align |-> 0, vol |-> FALSE,
     exact |-> FALSE, md |-> {}, ops |-> <<>>, idx |-> 0,
     ordering |-> <<>>]

RECURSIVE Walk(_, _)
Walk(m, u) == IF u = NoUse THEN <<>> ELSE <<u>> \o Walk(m, m.UseNext[u])

\* the uses of value v, in use-list order
uses(m, v) == Walk(m, m.UseList[v])

user_empty(m, v) == m.UseList[v] = NoUse

\* Use::removeFromList: unlink the Use; its own Next pointer is left as is
removeFromList(m, u) ==
    LET v == m.inst[u[1]].ops[u[2]]
        L == uses(m, v)
    IN  IF m.UseList[v] = u
        THEN [m EXCEPT !.UseList[v] = m.UseNext[u]]
        ELSE LET p == CHOOSE i \in 1 .. Len(L) - 1 : L[i + 1] = u
             IN  [m EXCEPT !.UseNext[L[p]] = m.UseNext[u]]

\* Use::addToList: push the Use at the head of v's list
addToList(m, u, v) ==
    [m EXCEPT !.UseNext = [x \in DOMAIN m.UseNext \cup {u} |->
                             IF x = u THEN m.UseList[v] ELSE m.UseNext[x]],
              !.UseList[v] = u]

\* Use::set: operand u[2] of instruction u[1] becomes v
set(m, u, v) ==
    LET old == m.inst[u[1]].ops[u[2]]
        m1  == IF old > 0 THEN removeFromList(m, u) ELSE m
        m2  == [m1 EXCEPT !.inst[u[1]].ops[u[2]] = v]
    IN  IF v > 0 THEN addToList(m2, u, v) ELSE m2

\* Value::replaceAllUsesWith
RECURSIVE replaceAllUsesWith(_, _, _)
replaceAllUsesWith(m, old, new) ==
    IF m.UseList[old] = NoUse THEN m
    ELSE replaceAllUsesWith(set(m, m.UseList[old], new), old, new)

\* User::dropAllReferences
RECURSIVE dropFrom(_, _, _)
dropFrom(m, id, k) ==
    IF k > Len(m.inst[id].ops) THEN m
    ELSE dropFrom(set(m, <<id, k>>, 0), id, k + 1)

dropAllReferences(m, id) == dropFrom(m, id, 1)

\* the id the next created instruction gets
NewId(m) == Len(m.inst) + 1

RECURSIVE linkOps(_, _, _)
linkOps(m, id, k) ==
    IF k > Len(m.inst[id].ops) THEN m
    ELSE LET v == m.inst[id].ops[k]
         IN  linkOps(IF v > 0 THEN addToList(m, <<id, k>>, v) ELSE m,
                     id, k + 1)

\* a new instruction (not yet in a block), its operands entered in the
\* use-lists of the values they name
Create(m, rec) ==
    linkOps([m EXCEPT !.inst = Append(@, rec),
                      !.UseList = Append(@, NoUse)],
            NewId(m), 1)

RECURSIVE CreateAll(_, _)
CreateAll(m, recs) ==
    IF recs = <<>> THEN m ELSE CreateAll(Create(m, Head(recs)), Tail(recs))

FuncIndex(m, name) ==
    IF \E i \in 1 .. Len(m.funcs) : m.funcs[i].name = name
    THEN CHOOSE i \in 1 .. Len(m.funcs) : m.funcs[i].name = name
    ELSE 0

\* Module::getFunction
getFunction(m, name) == FuncIndex(m, name)

Pos(body, id) ==
    IF \E i \in 1 .. Len(body) : body[i] = id
    THEN CHOOSE i \in 1 .. Len(body) : body[i] = id
    ELSE 0

\* the function whose body holds instruction id (0: none, the instruction
\* is erased)
Parent(m, id) ==
    IF \E i \in 1 .. Len(m.funcs) : Pos(m.funcs[i].body, id) > 0
    THEN CHOOSE i \in 1 .. Len(m.funcs) : Pos(m.funcs[i].body, id) > 0
    ELSE 0

\* the instructions that are in a block
Live(m) ==
    UNION {{m.funcs[i].body[j] : j \in 1 .. Len(m.funcs[i].body)} :
              i \in 1 .. Len(m.funcs)}

\* link instruction id into its block just before instruction before
insertBefore(m, id, before) ==
    LET f == Parent(m, before)
        b == m.funcs[f].body
        p == Pos(b, before)
    IN  [m EXCEPT !.funcs[f].body =
            SubSeq(b, 1, p - 1) \o <<id>> \o SubSeq(b, p, Len(b))]

\* Instruction::eraseFromParent: unlink from the block and delete
eraseFromParent(m, id) ==
    LET f  == Parent(m, id)
        b  == m.funcs[f].body
        p  == Pos(b, id)
        m1 == dropAllReferences(m, id)
    IN  [m1 EXCEPT !.funcs[f].body = SubSeq(b, 1, p - 1) \o
                                     SubSeq(b, p + 1, Len(b)),
                   !.inst[id].kind = "erased"]

isDeclaration(F) == F.body = <<>>

\* Function::use_empty: no call instruction of the module names F
use_empty(m, F) ==
    ~ \E id \in Live(m) : m.inst[id].kind = "call" /\ m.inst[id].callee = F.name

\* Function::isIntrinsic: the name starts with "llvm."
isIntrinsic(name) == Len(name) >= 2 /\ name[1] = "llvm" /\ name[2] = "."

HasPrefix(name, pre) ==
    Len(name) >= Len(pre) /\ SubSeq(name, 1, Len(pre)) = pre

\* IntrinsicInst::getIntrinsicID, for the three intrinsics the pass lowers
getIntrinsicID(name) ==
    IF HasPrefix(name, <<"llvm", ".", "memset", ".">>) THEN "memset"
    ELSE IF HasPrefix(name, <<"llvm", ".", "fshl", ".">>) THEN "fshl"
    ELSE IF HasPrefix(name, <<"llvm", ".", "umul", ".", "with", ".",
                             "overflow", ".">>) THEN "umul_with_overflow"
    ELSE "not_lowered"

(***************************************************************************)
(* lowerLLVMIntrinsicName: every '.' of the intrinsic's name becomes '_',  *)
(* and "spirv." is put in front.                                           *)
(***************************************************************************)
lowerLLVMIntrinsicName(FuncName) ==
    <<"spirv", ".">> \o
        [i \in 1 .. Len(FuncName) |->
            IF FuncName[i] = "." THEN "_" ELSE FuncName[i]]

\* CallBase::setCalledFunction
setCalledFunction(m, id, name) == [m EXCEPT !.inst[id].callee = name]

\* a function created at the end of the module's function list
FunctionCreate(m, name) == [m EXCEPT !.funcs = Append(@, [name |-> name, body |-> <<>>])]

\* Module::getOrInsertFunction / getOrCreateFunction: look the name up,
\* create a declaration when the module has none
getOrCreateFunction(m, name) ==
    IF getFunction(m, name) > 0 THEN m ELSE FunctionCreate(m, name)

\* the instructions recs become the body of function f
SetBody(m, f, recs) ==
    LET first == NewId(m)
        m1    == CreateAll(m, recs)
    IN  [m1 EXCEPT !.funcs[f].body = [i \in 1 .. Len(recs) |-> first + i - 1]]

(***************************************************************************)
(* The body lowerMemset gives a new @spirv.llvm_memset_* function:         *)
(* CreateMemSet(Dest, Val, Len, DestAlign, isVolatile); CreateRetVoid();   *)
(* expandMemSetAsLoop(MemSet); MemSet->eraseFromParent().  What is left    *)
(* is the store loop, its store carrying the alignment and the volatility  *)
(* the memset was created with.                                            *)
(***************************************************************************)
MemSetLoop(first, DestAlign, isVolatile) ==
    << [Inst0 EXCEPT !.kind = "icmp", !.label = "len.is.zero",
                     !.ops = <<Arg2>>],
       [Inst0 EXCEPT !.kind = "br"],
       [Inst0 EXCEPT !.kind = "phi", !.label = "loop.index"],
       [Inst0 EXCEPT !.kind = "gep", !.ops = <<Arg0, first + 2>>],
       [Inst0 EXCEPT !.kind = "store", !.label = "fill",
                     !.ops = <<Arg1, first + 3>>,
                     !.align = DestAlign, !.vol = isVolatile],
       [Inst0 EXCEPT !.kind = "binop", !.label = "add",
                     !.ops = <<first + 2>>],
       [Inst0 EXCEPT !.kind = "icmp", !.ops = <<first + 5, Arg2>>],
       [Inst0 EXCEPT !.kind = "br", !.ops = <<first + 6>>],
       [Inst0 EXCEPT !.kind = "ret"] >>

lowerMemset(m, MSI) ==
    IF m.inst[MSI].constArgs
    THEN m  \* to be handled in LLVMToSPIRV::transIntrinsicInst
    ELSE
    LET Name0    == lowerLLVMIntrinsicName(m.inst[MSI].callee)
        FuncName == IF m.inst[MSI].vol THEN Name0 \o <<".", "volatile">>
                    ELSE Name0
        F        == getFunction(m, FuncName)
    IN  IF F > 0
        THEN \* this function is already linked in
             setCalledFunction(m, MSI, FuncName)
        ELSE LET m1 == getOrCreateFunction(m, FuncName)
                 m2 == setCalledFunction(m1, MSI, FuncName)
             IN  SetBody(m2, getFunction(m2, FuncName),
                         MemSetLoop(NewId(m2), m.inst[MSI].align,
                                    m.inst[MSI].vol))

(***************************************************************************)
(* buildFunnelShiftLeftFunc: nothing when the function has a body, else    *)
(* the block "rotate".                                                     *)
(***************************************************************************)
RotateBB(first) ==
    << [Inst0 EXCEPT !.kind = "binop", !.label = "urem",
                     !.ops = <<Arg2>>],
       [Inst0 EXCEPT !.kind = "binop", !.label = "shl",
                     !.ops = <<Arg0, first>>],
       [Inst0 EXCEPT !.kind = "binop", !.label = "sub",
                     !.ops = <<first>>],
       [Inst0 EXCEPT !.kind = "binop", !.label = "lshr",
                     !.ops = <<Arg1, first + 2>>],
       [Inst0 EXCEPT !.kind = "binop", !.label = "or",
                     !.ops = <<first + 1, first + 3>>],
       [Inst0 EXCEPT !.kind = "ret", !.ops = <<first + 4>>] >>

buildFunnelShiftLeftFunc(m, FSHLFunc) ==
    IF m.funcs[FSHLFunc].body # <<>> THEN m
    ELSE SetBody(m, FSHLFunc, RotateBB(NewId(m)))

lowerFunnelShiftLeft(m, FSHLIntrinsic) ==
    LET FuncName == lowerLLVMIntrinsicName(m.inst[FSHLIntrinsic].callee)
        m1       == getOrCreateFunction(m, FuncName)
        m2       == buildFunnelShiftLeftFunc(m1, getFunction(m1, FuncName))
    IN  setCalledFunction(m2, FSHLIntrinsic, FuncName)

(***************************************************************************)
(* buildUMulWithOverflowFunc: nothing when the function has a body, else   *)
(* the block "entry".                                                      *)
(***************************************************************************)
UMulEntryBB(first) ==
    << [Inst0 EXCEPT !.kind = "binop", !.label = "mul nuw",
                     !.ops = <<Arg0, Arg1>>],
       [Inst0 EXCEPT !.kind = "binop", !.label = "udiv",
                     !.ops = <<first, Arg0>>],
       [Inst0 EXCEPT !.kind = "icmp", !.label = "ne",
                     !.ops = <<Arg0, first + 1>>],
       [Inst0 EXCEPT !.kind = "insertvalue", !.idx = 0,
                     !.ops = <<Undef, first>>],
       [Inst0 EXCEPT !.kind = "insertvalue", !.idx = 1,
                     !.ops = <<first + 3, first + 2>>],
       [Inst0 EXCEPT !.kind = "ret", !.ops = <<first + 4>>] >>

buildUMulWithOverflowFunc(m, UMulFunc) ==
    IF m.funcs[UMulFunc].body # <<>> THEN m
    ELSE SetBody(m, UMulFunc, UMulEntryBB(NewId(m)))

lowerUMulWithOverflow(m, UMulIntrinsic) ==
    LET FuncName == lowerLLVMIntrinsicName(m.inst[UMulIntrinsic].callee)
        m1       == getOrCreateFunction(m, FuncName)
        m2       == buildUMulWithOverflowFunc(m1, getFunction(m1, FuncName))
    IN  setCalledFunction(m2, UMulIntrinsic, FuncName)

(***************************************************************************)
(* Input modules.                                                          *)
(***************************************************************************)
MaxSites == 2
MaxUsers == 3

EmptyModule ==
    [funcs |-> <<>>, inst |-> <<>>, UseList |-> <<>>,
     UseNext |-> [u \in {NoUse} |-> NoUse]]

IntrinsicName(intr) ==
    CASE intr = "memset" -> <<"llvm", ".", "memset", ".", "p0i8", ".", "i32">>
      [] intr = "fshl"   -> <<"llvm", ".", "fshl", ".", "i32">>
      [] intr = "umul"   -> <<"llvm", ".", "umul", ".", "with", ".",
                              "overflow", ".", "i32">>

Alignments == {1, 8}

\* the call sites of intrinsics a kernel can hold
SiteKinds ==
    {[intr |-> "memset", constArgs |-> FALSE, align |-> a, vol |-> v] :
        a \in Alignments, v \in BOOLEAN}
    \cup {[intr |-> "memset", constArgs |-> TRUE, align |-> 1, vol |-> FALSE],
          [intr |-> "fshl", constArgs |-> FALSE, align |-> 0, vol |-> FALSE],
          [intr |-> "umul", constArgs |-> FALSE, align |-> 0, vol |-> FALSE]}

\* the name the pass derives for a call site
SiteHelperName(s) ==
    lowerLLVMIntrinsicName(IntrinsicName(s.intr)) \o
        (IF s.intr = "memset" /\ s.vol THEN <<".", "volatile">> ELSE <<>>)

SiteCall(s, flags) ==
    [Inst0 EXCEPT !.kind = "call", !.callee = IntrinsicName(s.intr),
                  !.tail = flags, !.nounwind = flags,
                  !.constArgs = s.constArgs, !.align = s.align,
                  !.vol = s.vol]

\* the body a helper has when an earlier stage left it in the module
HelperBody(s, first) ==
    CASE s.intr = "memset" -> MemSetLoop(first, 8, s.vol)
      [] s.intr = "fshl"   -> RotateBB(first)
      [] s.intr = "umul"   -> UMulEntryBB(first)

(***************************************************************************)
(* A module with one kernel calling intrinsics: sites are its call sites,  *)
(* declFirst puts the intrinsic declarations before the kernel, pre says   *)
(* whether a function with the name derived for the first site is already  *)
(* there ("none", "decl": as a declaration the kernel calls, "body": with   *)
(* a body), flags gives the instructions the markings the pass strips.     *)
(***************************************************************************)
IntrinsicModule(sites, declFirst, pre, flags) ==
    LET n      == Len(sites)
        calls  == [i \in 1 .. n |-> SiteCall(sites[i], flags)]
        direct == IF pre = "none" THEN <<>>
                  ELSE <<[Inst0 EXCEPT !.kind = "call",
                                       !.callee = SiteHelperName(sites[1])]>>
        rest   == << [Inst0 EXCEPT !.kind = "binop", !.label = "udiv",
                                   !.exact = flags,
                                   !.md = IF flags
                                          THEN {"fpmath", "tbaa", "range", "dbg"}
                                          ELSE {"dbg"}],
                     [Inst0 EXCEPT !.kind = "ret"] >>
        kbody  == calls \o direct \o rest
        used   == SelectSeq(<<"memset", "fshl", "umul">>,
                            LAMBDA k : \E i \in 1 .. n : sites[i].intr = k)
        decls  == [i \in 1 .. Len(used) |->
                     [name |-> IntrinsicName(used[i]), body |-> <<>>]]
        kernel == <<[name |-> <<"kernel">>, body |-> <<>>]>>
        helper == IF pre = "none" THEN <<>>
                  ELSE <<[name |-> SiteHelperName(sites[1]), body |-> <<>>]>>
        fs     == (IF declFirst THEN decls \o kernel ELSE kernel \o decls)
                  \o helper
        m0     == [EmptyModule EXCEPT !.funcs = fs]
        m1     == SetBody(m0, FuncIndex(m0, <<"kernel">>), kbody)
    IN  IF pre = "body"
        THEN SetBody(m1, Len(fs), HelperBody(sites[1], NewId(m1)))
        ELSE m1

(***************************************************************************)
(* A module with one kernel holding an atomic compare-exchange (id 1) and  *)
(* its users, prog giving their kinds in program order:                    *)
(*   "x0", "x1"  extractvalue of field 0 / 1, followed by an instruction   *)
(*               that uses the extracted value;                            *)
(*   "store"     a store of the whole pair;                                *)
(*   "other"     any other user of the whole pair (a call argument, a      *)
(*               return value).                                            *)
(* order is the order of the users in the compare-exchange's use-list.     *)
(* The kernel ends with a call of llvm.fshl, an intrinsic declared after   *)
(* the kernel.                                                             *)
(***************************************************************************)
UserKinds == {"x0", "x1", "store", "other"}

UserInst(k) ==
    CASE k = "x0"    -> [Inst0 EXCEPT !.kind = "extractvalue", !.idx = 0,
                                      !.ops = <<1>>]
      [] k = "x1"    -> [Inst0 EXCEPT !.kind = "extractvalue", !.idx = 1,
                                      !.ops = <<1>>]
      [] k = "store" -> [Inst0 EXCEPT !.kind = "store", !.ops = <<1, Arg0>>]
      [] k = "other" -> [Inst0 EXCEPT !.kind = "use", !.label = "whole",
                                      !.ops = <<1>>]

\* the instruction that follows user j (at id 2j) in the kernel
FollowInst(k, j) ==
    CASE k = "x0" -> [Inst0 EXCEPT !.kind = "use", !.label = "field0",
                                   !.ops = <<2 * j>>]
      [] k = "x1" -> [Inst0 EXCEPT !.kind = "use", !.label = "field1",
                                   !.ops = <<2 * j>>]
      [] OTHER    -> [Inst0 EXCEPT !.kind = "binop", !.label = "add"]

Perms(n) == {p \in [1 .. n -> 1 .. n] : \A i, j \in 1 .. n : p[i] = p[j] => i = j}

CmpXchgModule(prog, order) ==
    LET n     == Len(prog)
        cx    == [Inst0 EXCEPT !.kind = "cmpxchg",
                               !.ordering = <<"seq_cst", "monotonic">>,
                               !.ops = <<Arg0, Arg1, Arg2>>]
        kbody == <<cx>> \o
                 [i \in 1 .. 2 * n |->
                    IF i % 2 = 1 THEN UserInst(prog[(i + 1) \div 2])
                    ELSE FollowInst(prog[i \div 2], i \div 2)]
                 \o <<[Inst0 EXCEPT !.kind = "call",
                                     !.callee = IntrinsicName("fshl")]>>
                 \o <<[Inst0 EXCEPT !.kind = "ret"]>>
        m0    == [EmptyModule EXCEPT
                    !.funcs = <<[name |-> <<"kernel">>, body |-> <<>>],
                                [name |-> IntrinsicName("fshl"),
                                 body |-> <<>>]>>]
        m1    == SetBody(m0, 1, kbody)
        use(i) == <<2 * order[i], 1>>
    IN  IF n = 0 THEN m1
        ELSE [m1 EXCEPT
                !.UseList[1] = use(1),
                !.UseNext = [u \in DOMAIN m1.UseNext |->
                    IF \E i \in 1 .. n : u = use(i)
                    THEN LET i == CHOOSE i \in 1 .. n : u = use(i)
                         IN  IF i = n THEN NoUse ELSE use(i + 1)
                    ELSE m1.UseNext[u]]]

SiteSeqs == UNION {[1 .. n -> SiteKinds] : n \in 1 .. MaxSites}
UserSeqs == UNION {[1 .. n -> UserKinds] : n \in 0 .. MaxUsers}

InputModules ==
    {IntrinsicModule(s, d, p, f) :
        s \in SiteSeqs, d \in BOOLEAN, p \in {"none", "decl", "body"},
        f \in BOOLEAN}
    \cup UNION {{CmpXchgModule(prog, o) : o \in Perms(Len(prog))} :
                    prog \in UserSeqs}

NothingErased == [what |-> "none", hadUsers |-> FALSE, hadBody |-> FALSE]

PassInit ==
    /\ M \in InputModules
    /\ pc = "start"
    /\ I = 1 /\ II = 0 /\ U = NoUse /\ Res = 0 /\ ToErase = <<>>
    /\ run = 1
    /\ snapshot = EmptyModule
    /\ lowerLog = <<>>
    /\ failed = "none"
    /\ lastErased = NothingErased

\* the pass does not run in SpecArith
PassIdle ==
    /\ M = EmptyModule
    /\ pc = "idle"
    /\ I = 1 /\ II = 0 /\ U = NoUse /\ Res = 0 /\ ToErase = <<>>
    /\ run = 1
    /\ snapshot = EmptyModule
    /\ lowerLog = <<>>
    /\ failed = "none"
    /\ lastErased = NothingErased

\* no helper is evaluated in Spec
ArithIdle ==
    /\ op = "none" /\ BitWidth = 1 /\ NumElements = 1 /\ lane = 0
    /\ FirstArg = 0 /\ SecondArg = 0 /\ Rotate = 0 /\ Res0 = 0 /\ Res1 = 0

ArithInit ==
    /\ PassIdle
    /\ op \in {"fshl", "umul"}
    /\ BitWidth \in 1 .. MaxWidth
    /\ NumElements \in 1 .. MaxLanes
    /\ op = "umul" => NumElements = 1
    /\ lane = 0
    /\ FirstArg = 0 /\ SecondArg = 0 /\ Rotate = 0
    /\ Res0 = 0 /\ Res1 = 0

\* One lane of a call of @spirv.llvm_fshl_*.
CallFSHL ==
    /\ op = "fshl"
    /\ lane < NumElements
    /\ \E a \in IntVals(BitWidth), b \in IntVals(BitWidth),
          r \in IntVals(BitWidth) :
         /\ FirstArg' = a /\ SecondArg' = b /\ Rotate' = r
         /\ Res0' \in Outcomes(BitWidth,
                               FunnelShiftRes(BitWidth, a, b, r))
    /\ lane' = lane + 1
    /\ UNCHANGED <<op, BitWidth, NumElements, Res1>>
    /\ UNCHANGED passVars

\* A call of @spirv.llvm_umul_with_overflow_*.
CallUMul ==
    /\ op = "umul"
    /\ lane = 0
    /\ \E a \in IntVals(BitWidth), b \in IntVals(BitWidth) :
         LET R == UMulWithOverflowRes(BitWidth, a, b) IN
         /\ FirstArg' = a /\ SecondArg' = b
         /\ Res0' \in Outcomes(BitWidth, R[1])
         /\ Res1' \in Outcomes(1, R[2])
    /\ lane' = 1
    /\ UNCHANGED <<op, BitWidth, NumElements, Rotate>>
    /\ UNCHANGED passVars

ArithNext == CallFSHL \/ CallUMul

SpecArith == ArithInit /\ [][ArithNext]_vars

(***************************************************************************)
(* regularize()                                                            *)
(***************************************************************************)

\* eraseUselessFunctions: every declaration nothing uses leaves the module
eraseUselessFunctions(m) ==
    [m EXCEPT !.funcs =
        SelectSeq(@, LAMBDA F : ~ (isDeclaration(F) /\ use_empty(m, F)))]

\* the test of the function loop: F->isDeclaration() && F->use_empty()
UselessDeclaration(m, F) == isDeclaration(F) /\ use_empty(m, F)

\* the instruction after id in its block (0: none)
NextInst(m, id) ==
    LET b == m.funcs[Parent(m, id)].body
        p == Pos(b, id)
    IN  IF p < Len(b) THEN b[p + 1] ELSE 0

\* the memory scope of the inserted call: spv::ScopeDevice
ScopeDevice == 1

\* OCLMemOrderMap::map(toCABI(ordering)): the SPIR-V memory semantics
OCLMemOrderMap(ordering) ==
    CASE ordering = "monotonic" -> 0
      [] ordering = "acquire"   -> 2
      [] ordering = "release"   -> 4
      [] ordering = "acq_rel"   -> 8
      [] ordering = "seq_cst"   -> 16

SPIRVAtomicCompareExchange == <<"__spirv_AtomicCompareExchange">>

\* addCallInstSPIRV: a call of the named builtin, declared on demand,
\* inserted before Pos
addCallInstSPIRV(m, FuncName, Args, Before, InstName) ==
    LET m1 == getOrCreateFunction(m, FuncName)
        id == NewId(m1)
        m2 == Create(m1, [Inst0 EXCEPT !.kind = "call", !.label = InstName,
                                       !.callee = FuncName, !.ops = Args])
    IN  insertBefore(m2, id, Before)

\* the part of the instruction loop that every call goes through
visitCall(m, Call) ==
    LET m1 == [m EXCEPT !.inst[Call].tail = FALSE]  \* setTailCall(false)
        CF == m.inst[Call].callee
    IN  IF isIntrinsic(CF)
        THEN LET m2 == [m1 EXCEPT !.inst[Call].nounwind = FALSE]
                 ID == getIntrinsicID(CF)
             IN  CASE ID = "memset" -> lowerMemset(m2, Call)
                   [] ID = "fshl"   -> lowerFunnelShiftLeft(m2, Call)
                   [] ID = "umul_with_overflow" ->
                                       lowerUMulWithOverflow(m2, Call)
                   [] OTHER         -> m2
        ELSE m1

\* remove optimization info not supported by SPIRV
clearExact(m, BO) ==
    IF m.inst[BO].exact THEN [m EXCEPT !.inst[BO].exact = FALSE] ELSE m

\* remove metadata not supported by SPIRV
MDs == {"fpmath", "tbaa", "range"}

clearMetadata(m, id) == [m EXCEPT !.inst[id].md = @ \ MDs]

\* what the loop body does to instruction id before it looks for a cmpxchg
visitInst(m, id) ==
    LET k  == m.inst[id].kind
        m1 == IF k = "call" THEN visitCall(m, id) ELSE m
        m2 == IF k = "binop" THEN clearExact(m1, id) ELSE m1
    IN  clearMetadata(m2, id)

\* the name a lowering derives for call site id, <<>> when none is derived
DerivedName(m, id) ==
    LET c == m.inst[id] IN
    IF c.kind = "call" /\ isIntrinsic(c.callee)
       /\ getIntrinsicID(c.callee) # "not_lowered"
       /\ ~ (getIntrinsicID(c.callee) = "memset" /\ c.constArgs)
    THEN lowerLLVMIntrinsicName(c.callee) \o
            (IF getIntrinsicID(c.callee) = "memset" /\ c.vol
             THEN <<".", "volatile">> ELSE <<>>)
    ELSE <<>>

\* the log entry of a lowering that took the module from m to m2
LogEntry(m, m2, id) ==
    LET name == DerivedName(m, id)
        f    == getFunction(m, name)
    IN  [site |-> id, name |-> name, run |-> run,
         found |-> f > 0,
         foundBody |-> f > 0 /\ m.funcs[f].body # <<>>,
         changed |-> f > 0 /\ m2.funcs[f] # m.funcs[f],
         built |-> m2.funcs[getFunction(m2, name)].body # <<>>
                   /\ (f = 0 \/ m.funcs[f].body = <<>>)]

Start ==
    /\ pc = "start"
    /\ UNCHANGED arithVars
    \* the input modules call no builtin that takes a function pointer:
    \* lowerFuncPtr(M) finds no work
    /\ M' = eraseUselessFunctions(M)
    /\ I' = 1
    /\ pc' = "functions"
    /\ UNCHANGED <<II, U, Res, ToErase, run, snapshot, lowerLog, failed,
                   lastErased>>

EraseDeclaration ==
    /\ pc = "functions"
    /\ UNCHANGED arithVars
    /\ I <= Len(M.funcs)
    /\ UselessDeclaration(M, M.funcs[I])
    /\ M' = [M EXCEPT !.funcs = SubSeq(@, 1, I - 1) \o
                                SubSeq(@, I + 1, Len(@))]
    /\ lastErased' = [what |-> "function",
                      hadUsers |-> ~ use_empty(M, M.funcs[I]),
                      hadBody |-> M.funcs[I].body # <<>>]
    /\ UNCHANGED <<pc, I, II, U, Res, ToErase, run, snapshot, lowerLog,
                   failed>>

EnterFunction ==
    /\ pc = "functions"
    /\ UNCHANGED arithVars
    /\ I <= Len(M.funcs)
    /\ ~ UselessDeclaration(M, M.funcs[I])
    /\ I' = I + 1
    /\ ToErase' = <<>>
    /\ IF M.funcs[I].body = <<>>
       THEN /\ pc' = "functions"
            /\ II' = 0
       ELSE /\ pc' = "instructions"
            /\ II' = M.funcs[I].body[1]
    /\ UNCHANGED <<M, U, Res, run, snapshot, lowerLog, failed, lastErased>>

Finish ==
    /\ pc = "functions"
    /\ UNCHANGED arithVars
    /\ I > Len(M.funcs)
    /\ pc' = "done"
    /\ UNCHANGED <<M, I, II, U, Res, ToErase, run, snapshot, lowerLog,
                   failed, lastErased>>

VisitInstruction ==
    /\ pc = "instructions"
    /\ UNCHANGED arithVars
    /\ M.inst[II].kind # "cmpxchg"
    /\ LET m2 == visitInst(M, II)
           nx == NextInst(m2, II)
       IN  /\ M' = m2
           /\ lowerLog' = IF DerivedName(M, II) # <<>>
                          THEN Append(lowerLog, LogEntry(M, m2, II))
                          ELSE lowerLog
           /\ II' = nx
           /\ pc' = IF nx = 0 THEN "erase" ELSE "instructions"
    /\ UNCHANGED <<I, U, Res, ToErase, run, snapshot, failed, lastErased>>

VisitCmpXchg ==
    /\ pc = "instructions"
    /\ UNCHANGED arithVars
    /\ M.inst[II].kind = "cmpxchg"
    /\ LET m1           == visitInst(M, II)
           Cmpxchg      == m1.inst[II]
           Ptr          == Cmpxchg.ops[1]
           MemoryScope  == ConstInt32(ScopeDevice)
           EqualSem     == ConstInt32(OCLMemOrderMap(Cmpxchg.ordering[1]))
           UnequalSem   == ConstInt32(OCLMemOrderMap(Cmpxchg.ordering[2]))
           Val          == Cmpxchg.ops[3]
           Comparator   == Cmpxchg.ops[2]
           Args         == <<Ptr, MemoryScope, EqualSem, UnequalSem, Val,
                             Comparator>>
           m2           == addCallInstSPIRV(m1, SPIRVAtomicCompareExchange,
                                            Args, II, "cmpxchg.res")
       IN  /\ M' = m2
           /\ Res' = NewId(m1)
           /\ U' = m2.UseList[II]
    /\ pc' = "users"
    /\ UNCHANGED <<I, II, ToErase, run, snapshot, lowerLog, failed,
                   lastErased>>

\* lowerExtract with the uses of a field-1 extract left on the extract
lowerExtractKeepsFlagUses(m, Extract, res, Comparator) ==
    IF m.inst[Extract].idx = 0
    THEN replaceAllUsesWith(m, Extract, res)
    ELSE LET Cmp == NewId(m)
             m1  == Create(m, [Inst0 EXCEPT !.kind = "icmp",
                                            !.label = "cmpxchg.success",
                                            !.ops = <<res, Comparator>>])
         IN  insertBefore(m1, Cmp, Extract)

\* an extractvalue user of the cmpxchg: its users get the call's result
\* (field 0) or a new comparison of it with the comparator (field 1)
lowerExtract(m, Extract, res, Comparator) ==
    IF m.inst[Extract].idx = 0
    THEN replaceAllUsesWith(m, Extract, res)
    ELSE LET Cmp == NewId(m)
             m1  == Create(m, [Inst0 EXCEPT !.kind = "icmp",
                                            !.label = "cmpxchg.success",
                                            !.ops = <<res, Comparator>>])
             m2  == insertBefore(m1, Cmp, Extract)
         IN  replaceAllUsesWith(m2, Extract, Cmp)

\* a store user of the cmpxchg: a pair is built before the store and
\* replaces every use of the value the store stores
lowerStore(m, Store, res, Comparator) ==
    LET Cmp       == NewId(m)
        m1        == insertBefore(
                        Create(m, [Inst0 EXCEPT !.kind = "icmp",
                                                !.label = "cmpxchg.success",
                                                !.ops = <<res, Comparator>>]),
                        Cmp, Store)
        Agg       == NewId(m1)
        m2        == insertBefore(
                        Create(m1, [Inst0 EXCEPT !.kind = "insertvalue",
                                                 !.label = "agg0", !.idx = 0,
                                                 !.ops = <<Undef, res>>]),
                        Agg, Store)
        AggStruct == NewId(m2)
        m3        == insertBefore(
                        Create(m2, [Inst0 EXCEPT !.kind = "insertvalue",
                                                 !.label = "agg1", !.idx = 1,
                                                 !.ops = <<Agg, Cmp>>]),
                        AggStruct, Store)
    IN  replaceAllUsesWith(m3, m3.inst[Store].ops[1], AggStruct)

\* one iteration of: for (User *U : Cmpxchg->users())
VisitUser ==
    /\ pc = "users"
    /\ UNCHANGED arithVars
    /\ U # NoUse
    /\ LET User       == U[1]
           Comparator == M.inst[II].ops[2]
       IN  CASE M.inst[User].kind = "extractvalue" ->
                  IF M.inst[User].idx \notin {0, 1}
                  THEN /\ failed' = "Unxpected cmpxchg pattern"
                       /\ pc' = "aborted"
                       /\ UNCHANGED <<M, U, ToErase>>
                  ELSE LET m1 == lowerExtract(M, User, Res, Comparator)
                           m2 == dropAllReferences(m1, User)
                       IN  IF ~ user_empty(m1, User)
                           THEN /\ failed' = "Extract->user_empty()"
                                /\ pc' = "aborted"
                                /\ M' = m1
                                /\ UNCHANGED <<U, ToErase>>
                           ELSE /\ M' = m2
                                /\ ToErase' = Append(ToErase, User)
                                /\ U' = m2.UseNext[U]
                                /\ UNCHANGED <<pc, failed>>
             [] M.inst[User].kind = "store" ->
                  LET m1 == lowerStore(M, User, Res, Comparator)
                  IN  /\ M' = m1
                      /\ U' = m1.UseNext[U]
                      /\ UNCHANGED <<pc, failed, ToErase>>
             [] OTHER ->
                  /\ U' = M.UseNext[U]
                  /\ UNCHANGED <<M, pc, failed, ToErase>>
    /\ UNCHANGED <<I, II, Res, run, snapshot, lowerLog, lastErased>>

\* after the users loop: if (Cmpxchg->user_empty()) ToErase.push_back
EndUsers ==
    /\ pc = "users"
    /\ UNCHANGED arithVars
    /\ U = NoUse
    /\ ToErase' = IF user_empty(M, II) THEN Append(ToErase, II) ELSE ToErase
    /\ LET nx == NextInst(M, II)
       IN  /\ II' = nx
           /\ pc' = IF nx = 0 THEN "erase" ELSE "instructions"
    /\ UNCHANGED <<M, I, U, Res, run, snapshot, lowerLog, failed,
                   lastErased>>

\* one iteration of: for (Instruction *V : ToErase)
EraseOne ==
    /\ pc = "erase"
    /\ UNCHANGED arithVars
    /\ ToErase # <<>>
    /\ LET V == Head(ToErase)
       IN  IF ~ user_empty(M, V)
           THEN /\ failed' = "V->user_empty()"
                /\ pc' = "aborted"
                /\ UNCHANGED <<M, ToErase, lastErased>>
           ELSE /\ M' = eraseFromParent(M, V)
                /\ ToErase' = Tail(ToErase)
                /\ lastErased' = [what |-> "instruction",
                                  hadUsers |-> uses(M, V) # <<>>,
                                  hadBody |-> FALSE]
                /\ UNCHANGED <<pc, failed>>
    /\ UNCHANGED <<I, II, U, Res, run, snapshot, lowerLog>>

EndFunction ==
    /\ pc = "erase"
    /\ UNCHANGED arithVars
    /\ ToErase = <<>>
    /\ pc' = "functions"
    /\ UNCHANGED <<M, I, II, U, Res, ToErase, run, snapshot, lowerLog,
                   failed, lastErased>>

\* the pass is applied to its own output
RunAgain ==
    /\ pc = "done"
    /\ UNCHANGED arithVars
    /\ run = 1
    /\ run' = 2
    /\ snapshot' = M
    /\ pc' = "start"
    /\ UNCHANGED <<M, I, II, U, Res, ToErase, lowerLog, failed, lastErased>>

Next ==
    \/ Start \/ EraseDeclaration \/ EnterFunction \/ Finish
    \/ VisitInstruction \/ VisitCmpXchg \/ VisitUser \/ EndUsers
    \/ EraseOne \/ EndFunction \/ RunAgain

Init == PassInit /\ ArithIdle

Spec == Init /\ [][Next]_vars

(***************************************************************************)
(* What the claims are stated with.                                        *)
(***************************************************************************)

\* the module as a printer shows it: the functions, and the instructions
\* that are in a block
View(m) == [funcs |-> m.funcs, inst |-> [id \in Live(m) |-> m.inst[id]]]

Completed == pc = "done"

\* the run-time value of operand v as instruction user sees it, when the
\* inserted call returns orig and the comparator holds 0.  A value is 0 or
\* 1; a pair (f0, f1) is 100 + 10 * f0 + f1, a field that was never set
\* being 9; Garbage is what a use sees that its definition does not precede.
Garbage == Poison
Pair(f0, f1) == 100 + 10 * f0 + f1
Field0(p) == (p - 100) \div 10
Field1(p) == (p - 100) % 10

Precedes(m, v, user) ==
    /\ Parent(m, v) > 0
    /\ Parent(m, v) = Parent(m, user)
    /\ Pos(m.funcs[Parent(m, v)].body, v) < Pos(m.funcs[Parent(m, v)].body, user)

RECURSIVE Observed(_, _, _, _)
Observed(m, user, v, orig) ==
    IF v = Arg1 THEN 0
    ELSE IF v = Undef THEN Pair(9, 9)
    ELSE IF v <= 0 THEN Garbage
    ELSE IF ~ Precedes(m, v, user) THEN Garbage
    ELSE LET d == m.inst[v]
             o(k) == Observed(m, v, d.ops[k], orig)
         IN  CASE d.kind = "call" /\ d.label = "cmpxchg.res" -> orig
               [] d.kind = "cmpxchg" ->
                    Pair(orig, IF orig = 0 THEN 1 ELSE 0)
               [] d.kind = "icmp" /\ Len(d.ops) = 2 ->
                    IF o(1) = Garbage \/ o(2) = Garbage THEN Garbage
                    ELSE IF o(1) = o(2) THEN 1 ELSE 0
               [] d.kind = "insertvalue" ->
                    IF o(1) = Garbage \/ o(2) = Garbage THEN Garbage
                    ELSE IF d.idx = 0 THEN Pair(o(2), Field1(o(1)))
                    ELSE Pair(Field0(o(1)), o(2))
               [] d.kind = "extractvalue" /\ Len(d.ops) = 1 ->
                    IF o(1) = Garbage THEN Garbage
                    ELSE IF d.idx = 0 THEN Field0(o(1)) ELSE Field1(o(1))
               [] OTHER -> Garbage

\* the compare-exchange is consumed by extracts and stores only
OnlyHandledUsers(m) == ~ \E id \in Live(m) : m.inst[id].label = "whole"

\* the values the pass introduces when it decomposes a compare-exchange
Introduced == {"cmpxchg.res", "cmpxchg.success", "agg0", "agg1"}

\* what must not be left in a regularized module
Unrepresentable(i) ==
    \/ i.kind = "call" /\ getIntrinsicID(i.callee) = "memset" /\ ~ i.constArgs
    \/ i.kind = "call" /\ getIntrinsicID(i.callee) = "fshl"
    \/ i.kind = "call" /\ getIntrinsicID(i.callee) = "umul_with_overflow"
    \/ i.kind = "call" /\ i.tail
    \/ i.kind = "call" /\ isIntrinsic(i.callee) /\ i.nounwind
    \/ i.exact
    \/ i.md \cap MDs # {}
    \/ i.kind = "cmpxchg"

\* the call sites a lowering retargeted
Retargeted(m) ==
    {id \in Live(m) : \E k \in 1 .. Len(lowerLog) : lowerLog[k].site = id}

IsMemsetHelperName(name) ==
    HasPrefix(name, lowerLLVMIntrinsicName(<<"llvm", ".", "memset", ".">>))

Fills(m, F) ==
    {id \in 1 .. Len(m.inst) :
        Pos(F.body, id) > 0 /\ m.inst[id].kind = "store"
        /\ m.inst[id].label = "fill"}

(***************************************************************************)
(* C1: for every width and every pair of operands with a # 0, the          *)
(* overflow flag returned by the umul helper is true exactly when the      *)
(* mathematical product exceeds 2^W - 1.                                   *)
(***************************************************************************)
C1_OverflowFlagExact ==
    (op = "umul" /\ lane = 1 /\ FirstArg # 0)
        => (Res1 = 1 <=> FirstArg * SecondArg > Pow2(BitWidth) - 1)

(***************************************************************************)
(* C2: for every width, operands and rotate amount, each lane of the       *)
(* value returned by the fshl helper equals the conceptual funnel shift    *)
(* left.                                                                   *)
(***************************************************************************)
C2_FunnelShiftMatchesReference ==
    (op = "fshl" /\ lane >= 1)
        => Res0 = ConceptualFSHL(BitWidth, FirstArg, SecondArg, Rotate)

(***************************************************************************)
(* C3: the pass is idempotent: a second application to the result of the   *)
(* first changes nothing in the module.                                    *)
(***************************************************************************)
C3_Idempotent ==
    (Completed /\ run = 2) => View(M) = View(snapshot)

(***************************************************************************)
(* C4: when regularize() completes, no function body holds a call of the   *)
(* memset intrinsic with non-constant arguments, a call of the fshl or     *)
(* umul.with.overflow intrinsic, a tail call, a nounwind intrinsic call,   *)
(* an exact binary operator, fpmath/tbaa/range metadata or an atomic       *)
(* compare-exchange.                                                       *)
(***************************************************************************)
C4_OutputRepresentable ==
    Completed => \A id \in Live(M) : ~ Unrepresentable(M.inst[id])

(***************************************************************************)
(* C5: the pass never completes while an instruction it did not rewrite    *)
(* still has the original compare-exchange as an operand.                  *)
(***************************************************************************)
C5_NoConsumerSkipped ==
    Completed =>
        \A id \in Live(M) : \A k \in 1 .. Len(M.inst[id].ops) :
            M.inst[id].ops[k] > 0 => M.inst[M.inst[id].ops[k]].kind # "cmpxchg"

(***************************************************************************)
(* C6: after the decomposition of a compare-exchange consumed by extracts  *)
(* and stores only, in any use-list order, every former user of a field-0  *)
(* extract sees the value the inserted call returns, every former user of  *)
(* a field-1 extract sees whether that value equals the comparator, every  *)
(* store stores the pair of both, and the call's operands are (pointer,    *)
(* device scope, success code, failure code, new value, comparator).       *)
(***************************************************************************)
C6_ConsumersObserveDecomposition ==
    (Completed /\ OnlyHandledUsers(M)) =>
        \A id \in Live(M) : \A orig \in {0, 1} :
            LET i == M.inst[id] IN
            /\ i.label = "field0" => Observed(M, id, i.ops[1], orig) = orig
            /\ i.label = "field1" =>
                 Observed(M, id, i.ops[1], orig) = (IF orig = 0 THEN 1 ELSE 0)
            /\ (i.kind = "store" /\ i.label # "fill") =>
                 Observed(M, id, i.ops[1], orig) =
                    Pair(orig, IF orig = 0 THEN 1 ELSE 0)
            /\ i.label = "cmpxchg.res" =>
                 i.ops = <<Arg0, ConstInt32(ScopeDevice), ConstInt32(16),
                           ConstInt32(0), Arg2, Arg1>>

(***************************************************************************)
(* C7: lookup-or-create of the helpers: no two functions of the module     *)
(* have the same name; a function that already has the derived name is     *)
(* reused and not modified, otherwise one is created and its body          *)
(* synthesized, once per name; every retargeted call site calls a          *)
(* function that has a body.                                               *)
(***************************************************************************)
C7_LookupOrCreate ==
    /\ \A i, j \in 1 .. Len(M.funcs) :
          M.funcs[i].name = M.funcs[j].name => i = j
    /\ \A k \in 1 .. Len(lowerLog) :
          /\ lowerLog[k].found => ~ lowerLog[k].changed
          /\ ~ lowerLog[k].found => lowerLog[k].built
          /\ \A j \in 1 .. Len(lowerLog) :
                (lowerLog[j].built /\ lowerLog[k].built
                 /\ lowerLog[j].name = lowerLog[k].name) => j = k
    /\ Completed =>
          \A id \in Retargeted(M) :
              /\ getFunction(M, M.inst[id].callee) > 0
              /\ M.funcs[getFunction(M, M.inst[id].callee)].body # <<>>

C9_ErasedOnlyWhenUnused ==
    /\ failed \notin {"Extract->user_empty()", "V->user_empty()"}
    /\ ~ lastErased.hadUsers
    /\ ~ lastErased.hadBody

\* a run erased extractors and the compare-exchange they extracted from,
\* then a declaration that had lost its last use
C9_Witness ==
    /\ lastErased.what = "function"
    /\ M.inst[1].kind = "erased"
    /\ \E id \in 1 .. Len(M.inst) :
          /\ M.inst[id].kind = "erased"
          /\ M.inst[id].idx = 1
    /\ failed = "none"

(***************************************************************************)
(* C10: after the pass has decomposed a compare-exchange consumed by       *)
(* extracts and stores, in any use-list order, every value the             *)
(* decomposition introduced is defined before each instruction that uses   *)
(* it.                                                                     *)
(***************************************************************************)
C10_DefinitionBeforeUse ==
    (Completed /\ OnlyHandledUsers(M)) =>
        \A id \in Live(M) : \A k \in 1 .. Len(M.inst[id].ops) :
            LET v == M.inst[id].ops[k] IN
            (v > 0 /\ M.inst[v].label \in Introduced) => Precedes(M, v, id)

=============================================================================
